---- MODULE Spec2Model ----
(***************************************************************************)
(* Model of desktop-app/src/App.tsx: the installer front end of            *)
(* index-tts-desktop.  The React component App holds seven pieces of state *)
(* (useState) and talks to the host process through asynchronous invoke()  *)
(* calls.  Every handler of the component is one action; a handler runs to *)
(* its next await atomically (JavaScript is single threaded), and every    *)
(* answer of the host is a separate action.                                *)
(*                                                                         *)
(* Byte counts are held in KiB, so that the 8 GiB and 10 GiB cut-offs fit  *)
(* the integers of the model checker; JavaScript numbers do not overflow   *)
(* at these magnitudes.                                                    *)
(***************************************************************************)
EXTENDS Integers, Sequences, FiniteSets, TLC

\* ------------------------------------------------------------------ bounds
\* Number of start_installation calls followed over one session.
MaxInstalls == 3
\* Number of get_installation_progress calls followed over one session.
MaxPolls == 3
\* Number of unanswered launch_indextts calls, and of unanswered
\* open_install_directory calls, followed at a time.
MaxPending == 1
\* Number of start_installation calls, and of get_installation_progress calls,
\* followed in the sessions that use the completion panel.
MaxPostInstalls == 2
MaxPostPolls == 1
\* Number of start_installation calls, and of get_installation_progress calls
\* of one installation, followed in the sessions examined for termination.
MaxFairInstalls == 2
MaxFairPolls == 2
\* Number of start_installation calls followed in the sessions that edit the
\* configuration.
MaxConfigInstalls == 1

Installs == 1..MaxInstalls

\* ------------------------------------------------------------- data values
\* null of the source; undefined, for the optional version strings that are
\* absent; the empty string.
Null == "null"
Absent == "undefined"
Empty == ""

KiBPerGiB == 1048576
MinMemoryGiB == 8
MinDiskGiB == 10

\* SystemInfo: the four fields getSystemStatus reads, and two of those it
\* does not read.
FullProfile(mem, disk, py, git, avail, cuda) ==
    [total_memory |-> mem, available_disk_space |-> disk,
     python_version |-> py, git_version |-> git,
     available_memory |-> avail, cuda_available |-> cuda]

Profile(mem, disk, py, git) == FullProfile(mem, disk, py, git, mem, FALSE)

GoodProfile == Profile(MinMemoryGiB * KiBPerGiB, MinDiskGiB * KiBPerGiB, "3.11", "2.40")
WarnProfile == Profile(MinMemoryGiB * KiBPerGiB - 1, MinDiskGiB * KiBPerGiB, "3.11", Absent)
BadProfile  == Profile(MinMemoryGiB * KiBPerGiB - 1, MinDiskGiB * KiBPerGiB - 1, Absent, "2.40")

\* The profiles the host answers get_system_info with.
HostProfiles == {GoodProfile, WarnProfile, BadProfile}

\* The profiles the evaluator is examined on: each quantity below, at and
\* above its cutoff; each version string absent, empty and present.
EvalMemory == {MinMemoryGiB * KiBPerGiB - 1, MinMemoryGiB * KiBPerGiB, MinMemoryGiB * KiBPerGiB + 1}
EvalDisk == {MinDiskGiB * KiBPerGiB - 1, MinDiskGiB * KiBPerGiB, MinDiskGiB * KiBPerGiB + 1}
EvalVersions == {Absent, Empty, "3.11"}
EvalProfiles ==
    {FullProfile(m, d, py, git, a, c) :
        m \in EvalMemory, d \in EvalDisk, py \in EvalVersions, git \in EvalVersions,
        a \in {0, MinMemoryGiB * KiBPerGiB}, c \in BOOLEAN}

\* The host calls whose latest answer is recorded: get_default_install_path
\* of setDefaultPath, launch_indextts, open_install_directory.
AnsweredCalls == {"path", "launch", "open"}

\* The error texts a rejected invoke() carries.
HostErrors == {"E"}

\* useState<InstallProgress> initial value.
InitialProgress ==
    [step |-> "idle", progress |-> 0, message |-> "",
     is_complete |-> FALSE, has_error |-> FALSE]

RunningReport ==
    [step |-> "downloading", progress |-> 40, message |-> "working",
     is_complete |-> FALSE, has_error |-> FALSE]
FinishedReport ==
    [step |-> "completed", progress |-> 100, message |-> "done",
     is_complete |-> TRUE, has_error |-> FALSE]
FailedReport ==
    [step |-> "models", progress |-> 40, message |-> "M",
     is_complete |-> FALSE, has_error |-> TRUE]

\* The reports the phase list is examined on: each phase name, the names
\* "idle" and "completed" and one that is no phase, with percentages at and
\* around the fifths.
EvalSteps == {"idle", "preparing", "downloading", "models", "dependencies", "configuring",
              "completed", "verifying"}
EvalPercents == {0, 1, 20, 21, 40, 60, 80, 81, 100}
EvalReports ==
    {[step |-> st, progress |-> pc, message |-> "working",
      is_complete |-> FALSE, has_error |-> FALSE] : st \in EvalSteps, pc \in EvalPercents}

\* The reports the host answers get_installation_progress with.
HostReports == {RunningReport, FinishedReport, FailedReport}

FallbackPath == "/Users/Shared/IndexTTS"
HostDefaultPath == "/Applications/IndexTTS"

\* useState<InstallConfig> initial value.
InitialConfig ==
    [install_path |-> FallbackPath, model_type |-> "base", use_gpu |-> FALSE]

\* The values of the <option>s of the model select.
ModelOptions == {"standard", "large", "small"}

\* The texts typed into the path input: nothing, and a path.
TypedPaths == {"", "/opt/IndexTTS"}

\* The fixed message of the web environment (Chinese in the source).
WebEnvironmentMessage == "this installer supports the desktop application only"

\* How a report reads: the failed flag, then the finished flag.
ReportKind(progress) ==
    IF progress.has_error THEN "failed"
    ELSE IF progress.is_complete THEN "finished" ELSE "running"

\* Variants of the stop condition that overlook one of the two flags.
StopsPollingOnFinishOnly(progress) == progress.is_complete
StopsPollingOnFailureOnly(progress) == progress.has_error
\* A variant that stops on a report carrying both flags only.
StopsPollingOnBothFlags(progress) == progress.is_complete /\ progress.has_error

\* The condition under which the poll callback clears its timer.
StopsPolling(progress) == progress.is_complete \/ progress.has_error

\* ------------------------------------------------------------------- state
VARIABLES
    systemInfo,        \* <<>> (null) or <<profile>>
    loading,
    installing,
    isWebEnvironment,
    installProgress,
    error,             \* Null or a message
    installConfig,
    probe,             \* the startup invoke of checkEnvironment: "pending" | "ok" | "failed"
    sysCall,           \* a get_system_info call is unanswered
    pathCall,          \* the get_default_install_path call of setDefaultPath is unanswered
    nInst,             \* start_installation calls issued so far
    startCall,         \* per call: "unused" | "pending" | "accepted" | "rejected"
    timer,             \* per call: its progressInterval is armed
    outstanding,       \* per call: unanswered get_installation_progress calls of its timer
    issued,            \* per call: get_installation_progress calls issued by its timer
    runs,              \* per call: still-running reports its timer's calls were answered with
    overlap,           \* per call: its timer once fired while a call of it was unanswered
    lastPoll,          \* how the last get_installation_progress call was answered: "none" | "running" | "finished" | "failed" | "error"
    launchPending,     \* unanswered launch_indextts calls
    openPending,       \* unanswered open_install_directory calls
    alert,             \* Null or the text of the last alert() shown
    lastReply,         \* per host call: how its latest answer came, "none" | "ok" | "failed"
    lastExit           \* how installing was last set to false: "none" | "completed" | "failed" | "rejected" | "reset"

uiVars   == <<systemInfo, loading, installing, isWebEnvironment, installProgress, error, installConfig>>
envVars  == <<probe, sysCall, pathCall>>
instVars == <<nInst, startCall, timer, outstanding, issued, runs, overlap, lastPoll>>
postVars == <<launchPending, openPending, alert>>
vars     == <<uiVars, envVars, instVars, postVars, lastReply, lastExit>>

\* ------------------------------------------------------- pure functions
\* getSystemStatus: the diagnostics, in the order the checks are made.
\* !v of the source, for an optional string.
Not(v) == v = Absent \/ v = Empty

\* A variant of the memory check that fails a machine at the cutoff.
IssuesFailingAtCutoff(info) ==
    (IF info.total_memory <= MinMemoryGiB * KiBPerGiB THEN <<"memory">> ELSE <<>>)
    \o (IF info.available_disk_space < MinDiskGiB * KiBPerGiB THEN <<"disk">> ELSE <<>>)
    \o (IF Not(info.python_version) THEN <<"python">> ELSE <<>>)
    \o (IF Not(info.git_version) THEN <<"git">> ELSE <<>>)

Issues(info) ==
    (IF info.total_memory < MinMemoryGiB * KiBPerGiB THEN <<"memory">> ELSE <<>>)
    \o (IF info.available_disk_space < MinDiskGiB * KiBPerGiB THEN <<"disk">> ELSE <<>>)
    \o (IF Not(info.python_version) THEN <<"python">> ELSE <<>>)
    \o (IF Not(info.git_version) THEN <<"git">> ELSE <<>>)

\* The diagnostics shown with the verdict: none without a profile.
Diagnostics(si) == IF si = <<>> THEN <<>> ELSE Issues(si[1])

\* A variant of the verdict that tolerates one issue only.
getSystemStatusTolerantOfOne(si) ==
    IF si = <<>> THEN "unknown"
    ELSE LET n == Len(Issues(si[1]))
         IN IF n = 0 THEN "good" ELSE IF n <= 1 THEN "warning" ELSE "error"

getSystemStatus(si) ==
    IF si = <<>> THEN "unknown"
    ELSE LET n == Len(Issues(si[1]))
         IN IF n = 0 THEN "good" ELSE IF n <= 2 THEN "warning" ELSE "error"

systemStatus == getSystemStatus(systemInfo)

\* The messages setError is given: a fixed label (Chinese in the source, given
\* here in English) followed by the text of the error or of the report.
SystemInfoError(e) == "system check failed: " \o e
InstallFailedError(m) == "installation failed: " \o m
ProgressError(e) == "failed to get installation progress: " \o e
StartError(e) == "failed to start installation: " \o e

\* ------------------------------------------------------------ rendering
\* The keys of the installation steps list, in its order.
StepKeys == <<"preparing", "downloading", "models", "dependencies", "configuring">>

\* isActive and isCompleted of the list's entry at index (0-based, as in the
\* source); (index / 5) * 100 is computed as (index * 100) / 5, which is the
\* same number, the division being exact.
isActive(report, index) == report.step = StepKeys[index + 1]

\* A variant that counts a step complete at its threshold already.
isCompletedAtThreshold(report, index) == report.progress >= (index * 100) \div 5

isCompleted(report, index) == report.progress > (index * 100) \div 5

\* Variants of the start button's disabled attribute that overlook the
\* environment flag, or the verdict.
StartDisabledIgnoringEnvironment ==
    systemInfo = <<>> \/ getSystemStatus(systemInfo) = "error" \/ installing
StartDisabledIgnoringVerdict ==
    systemInfo = <<>> \/ isWebEnvironment \/ installing

\* The start button: rendered in the !installing branch, with its disabled
\* attribute.
StartDisabled ==
    systemInfo = <<>> \/ systemStatus = "error" \/ isWebEnvironment \/ installing

StartClickable == ~installing /\ ~StartDisabled

\* A variant of the re-detect button that is enabled while loading too.
RedetectClickableWhileLoading == loading \/ ~loading

\* The re-detect button.
RedetectClickable == ~loading

\* The failure panel with the reset button: rendered in the installing branch.
ResetClickable == installing /\ installProgress.has_error

\* ------------------------------------------------------------------- init
Init ==
    /\ systemInfo = <<>>
    /\ loading = TRUE
    /\ installing = FALSE
    /\ isWebEnvironment = FALSE
    /\ installProgress = InitialProgress
    /\ error = Null
    /\ installConfig = InitialConfig
    /\ probe = "pending"
    /\ sysCall = FALSE
    /\ pathCall = FALSE
    /\ nInst = 0
    /\ startCall = [i \in Installs |-> "unused"]
    /\ timer = [i \in Installs |-> FALSE]
    /\ outstanding = [i \in Installs |-> 0]
    /\ issued = [i \in Installs |-> 0]
    /\ runs = [i \in Installs |-> 0]
    /\ overlap = [i \in Installs |-> FALSE]
    /\ lastPoll = "none"
    /\ launchPending = 0
    /\ openPending = 0
    /\ alert = Null
    /\ lastReply = [c \in AnsweredCalls |-> "none"]
    /\ lastExit = "none"

\* ------------------------------------------------------ environment probe
\* checkEnvironment, the probe answered: the flag is set, checkSystemInfo runs
\* to its await and setDefaultPath issues its call.
ProbeOk ==
    /\ probe = "pending"
    /\ probe' = "ok"
    /\ isWebEnvironment' = FALSE
    /\ loading' = TRUE
    /\ error' = Null
    /\ sysCall' = TRUE
    /\ pathCall' = TRUE
    /\ UNCHANGED <<systemInfo, installing, installProgress, installConfig, instVars, lastExit>>
    /\ UNCHANGED postVars
    /\ UNCHANGED lastReply

\* A variant of the failed probe that goes on to fetch the profile.
ProbeFailStillDetects ==
    /\ probe = "pending"
    /\ probe' = "failed"
    /\ isWebEnvironment' = TRUE
    /\ error' = WebEnvironmentMessage
    /\ loading' = FALSE
    /\ sysCall' = TRUE
    /\ UNCHANGED <<systemInfo, installing, installProgress, installConfig, pathCall, instVars, lastExit>>
    /\ UNCHANGED postVars
    /\ UNCHANGED lastReply

\* checkEnvironment, the probe rejected.
ProbeFail ==
    /\ probe = "pending"
    /\ probe' = "failed"
    /\ isWebEnvironment' = TRUE
    /\ error' = WebEnvironmentMessage
    /\ loading' = FALSE
    /\ UNCHANGED <<systemInfo, installing, installProgress, installConfig, sysCall, pathCall, instVars, lastExit>>
    /\ UNCHANGED postVars
    /\ UNCHANGED lastReply

\* setDefaultPath, answered.
DefaultPathOk ==
    /\ pathCall
    /\ pathCall' = FALSE
    /\ installConfig' = [installConfig EXCEPT !.install_path = HostDefaultPath]
    /\ UNCHANGED <<systemInfo, loading, installing, isWebEnvironment, installProgress, error,
                   probe, sysCall, instVars, lastExit>>
    /\ UNCHANGED postVars
    /\ lastReply' = [lastReply EXCEPT !["path"] = "ok"]

\* setDefaultPath, rejected: the fallback path is kept.
DefaultPathFail ==
    /\ pathCall
    /\ pathCall' = FALSE
    /\ UNCHANGED <<uiVars, probe, sysCall, instVars, lastExit>>
    /\ UNCHANGED postVars
    /\ lastReply' = [lastReply EXCEPT !["path"] = "failed"]

\* The re-detect button: checkSystemInfo up to its await.
CheckSystemInfo ==
    /\ RedetectClickable
    /\ loading' = TRUE
    /\ error' = Null
    /\ sysCall' = TRUE
    /\ UNCHANGED <<systemInfo, installing, isWebEnvironment, installProgress, installConfig,
                   probe, pathCall, instVars, lastExit>>
    /\ UNCHANGED postVars
    /\ UNCHANGED lastReply

\* A variant of the answered get_system_info that leaves the installing
\* branch when the verdict on the new profile is error.
SystemInfoAnswerHaltsOnError(profiles) ==
    /\ sysCall
    /\ \E info \in profiles :
         /\ systemInfo' = <<info>>
         /\ installing' = (installing /\ getSystemStatus(<<info>>) # "error")
    /\ loading' = FALSE
    /\ sysCall' = FALSE
    /\ UNCHANGED <<isWebEnvironment, installProgress, error, installConfig,
                   probe, pathCall, instVars, lastExit>>
    /\ UNCHANGED postVars
    /\ UNCHANGED lastReply

\* checkSystemInfo, answered with one of the given profiles.
SystemInfoAnswer(profiles) ==
    /\ sysCall
    /\ \E info \in profiles : systemInfo' = <<info>>
    /\ loading' = FALSE
    /\ sysCall' = FALSE
    /\ UNCHANGED <<installing, isWebEnvironment, installProgress, error, installConfig,
                   probe, pathCall, instVars, lastExit>>
    /\ UNCHANGED postVars
    /\ UNCHANGED lastReply

SystemInfoOk == SystemInfoAnswer(HostProfiles)

\* A variant of the rejected get_system_info that drops the profile held.
SystemInfoFailDropsProfile ==
    /\ sysCall
    /\ \E e \in HostErrors : error' = SystemInfoError(e)
    /\ systemInfo' = <<>>
    /\ loading' = FALSE
    /\ sysCall' = FALSE
    /\ UNCHANGED <<installing, isWebEnvironment, installProgress, installConfig,
                   probe, pathCall, instVars, lastExit>>
    /\ UNCHANGED postVars
    /\ UNCHANGED lastReply

\* checkSystemInfo, rejected.
SystemInfoFail ==
    /\ sysCall
    /\ \E e \in HostErrors : error' = SystemInfoError(e)
    /\ loading' = FALSE
    /\ sysCall' = FALSE
    /\ UNCHANGED <<systemInfo, installing, isWebEnvironment, installProgress, installConfig,
                   probe, pathCall, instVars, lastExit>>
    /\ UNCHANGED postVars
    /\ UNCHANGED lastReply

\* ------------------------------------------------------------ installation
RECURSIVE SumTo(_, _)
SumTo(f, n) == IF n = 0 THEN 0 ELSE f[n] + SumTo(f, n - 1)

\* The get_installation_progress calls issued, and those unanswered, over all timers.
TotalIssued == SumTo(issued, MaxInstalls)
TotalOutstanding == SumTo(outstanding, MaxInstalls)

\* The start button: startInstallation up to its await.
StartInstallation ==
    /\ StartClickable
    /\ nInst < MaxInstalls
    /\ IF isWebEnvironment
       THEN UNCHANGED vars
       ELSE /\ installing' = TRUE
            /\ error' = Null
            /\ nInst' = nInst + 1
            /\ startCall' = [startCall EXCEPT ![nInst + 1] = "pending"]
            /\ UNCHANGED <<systemInfo, loading, isWebEnvironment, installProgress, installConfig,
                           envVars, timer, outstanding, issued, runs, overlap, lastPoll, lastExit>>
    /\ UNCHANGED postVars
    /\ UNCHANGED lastReply

\* start_installation accepted: the interval timer is armed.
StartAccepted(i) ==
    /\ startCall[i] = "pending"
    /\ startCall' = [startCall EXCEPT ![i] = "accepted"]
    /\ timer' = [timer EXCEPT ![i] = TRUE]
    /\ UNCHANGED <<uiVars, envVars, nInst, outstanding, issued, runs, overlap, lastPoll, lastExit>>
    /\ UNCHANGED postVars
    /\ UNCHANGED lastReply

\* A variant of the rejection handler that forgets setInstalling(false).
StartRejectedStaysInstalling(i) ==
    /\ startCall[i] = "pending"
    /\ startCall' = [startCall EXCEPT ![i] = "rejected"]
    /\ \E e \in HostErrors : error' = StartError(e)
    /\ lastExit' = "rejected"
    /\ UNCHANGED <<systemInfo, loading, installing, isWebEnvironment, installProgress, installConfig,
                   envVars, nInst, timer, outstanding, issued, runs, overlap, lastPoll>>
    /\ UNCHANGED postVars
    /\ UNCHANGED lastReply

\* start_installation rejected.
StartRejected(i) ==
    /\ startCall[i] = "pending"
    /\ startCall' = [startCall EXCEPT ![i] = "rejected"]
    /\ installing' = FALSE
    /\ \E e \in HostErrors : error' = StartError(e)
    /\ lastExit' = "rejected"
    /\ UNCHANGED <<systemInfo, loading, isWebEnvironment, installProgress, installConfig,
                   envVars, nInst, timer, outstanding, issued, runs, overlap, lastPoll>>
    /\ UNCHANGED postVars
    /\ UNCHANGED lastReply

\* The interval timer fires: the callback up to its await.
IntervalFires(i) ==
    /\ timer[i]
    /\ issued' = [issued EXCEPT ![i] = @ + 1]
    /\ outstanding' = [outstanding EXCEPT ![i] = @ + 1]
    /\ overlap' = [overlap EXCEPT ![i] = @ \/ outstanding[i] > 0]
    /\ UNCHANGED <<uiVars, envVars, nInst, startCall, timer, runs, lastPoll, lastExit>>
    /\ UNCHANGED postVars
    /\ UNCHANGED lastReply

\* The same, within the number of polls followed in a session.
Tick(i) == TotalIssued < MaxPolls /\ IntervalFires(i)

\* get_installation_progress answered: the rest of the callback's try block.
PollAnswer(i, reports) ==
    /\ outstanding[i] > 0
    /\ outstanding' = [outstanding EXCEPT ![i] = @ - 1]
    /\ \E progress \in reports :
        /\ installProgress' = progress
        /\ lastPoll' = ReportKind(progress)
        /\ runs' = [runs EXCEPT ![i] = IF ReportKind(progress) = "running" THEN @ + 1 ELSE @]
        /\ IF StopsPolling(progress)
           THEN /\ timer' = [timer EXCEPT ![i] = FALSE]
                /\ installing' = FALSE
                /\ error' = IF progress.has_error THEN InstallFailedError(progress.message) ELSE error
                /\ lastExit' = IF progress.has_error THEN "failed" ELSE "completed"
           ELSE UNCHANGED <<timer, installing, error, lastExit>>
    /\ UNCHANGED <<systemInfo, loading, isWebEnvironment, installConfig, envVars,
                   nInst, startCall, issued, overlap>>
    /\ UNCHANGED postVars
    /\ UNCHANGED lastReply

\* The same, answered with one of the host's reports.
PollOk(i) == PollAnswer(i, HostReports)

\* A variant of the catch block that forgets clearInterval.
PollFailKeepsTimer(i) ==
    /\ outstanding[i] > 0
    /\ outstanding' = [outstanding EXCEPT ![i] = @ - 1]
    /\ installing' = FALSE
    /\ \E e \in HostErrors : error' = ProgressError(e)
    /\ lastExit' = "failed"
    /\ lastPoll' = "error"
    /\ UNCHANGED <<systemInfo, loading, isWebEnvironment, installProgress, installConfig,
                   envVars, nInst, startCall, timer, issued, runs, overlap>>
    /\ UNCHANGED postVars
    /\ UNCHANGED lastReply

\* get_installation_progress rejected: the callback's catch block.
PollFail(i) ==
    /\ outstanding[i] > 0
    /\ outstanding' = [outstanding EXCEPT ![i] = @ - 1]
    /\ timer' = [timer EXCEPT ![i] = FALSE]
    /\ installing' = FALSE
    /\ \E e \in HostErrors : error' = ProgressError(e)
    /\ lastExit' = "failed"
    /\ lastPoll' = "error"
    /\ UNCHANGED <<systemInfo, loading, isWebEnvironment, installProgress, installConfig,
                   envVars, nInst, startCall, issued, runs, overlap>>
    /\ UNCHANGED postVars
    /\ UNCHANGED lastReply

\* The reset button of the failure panel.
Reset ==
    /\ ResetClickable
    /\ installing' = FALSE
    /\ installProgress' = InitialProgress
    /\ lastExit' = "reset"
    /\ UNCHANGED <<systemInfo, loading, isWebEnvironment, error, installConfig, envVars, instVars>>
    /\ UNCHANGED postVars
    /\ UNCHANGED lastReply

\* --------------------------------------------------- post-completion panel
\* The completion panel with the launch and open-directory buttons: rendered
\* in the installing branch.
LaunchClickable ==
    installing /\ (installProgress.is_complete \/ installProgress.step = "completed")

\* The messages alert() is given (Chinese labels in the source).
LaunchResult == "IndexTTS launched"
LaunchError(e) == "launch failed: " \o e
OpenError(e) == "failed to open the directory: " \o e

\* The launch button: launchIndexTTS up to its await.
LaunchIndexTTS ==
    /\ LaunchClickable
    /\ launchPending < MaxPending
    /\ launchPending' = launchPending + 1
    /\ UNCHANGED <<uiVars, envVars, instVars, openPending, alert, lastExit>>
    /\ UNCHANGED lastReply

\* A variant of the answered launch_indextts that closes the installing
\* branch.
LaunchOkClosesPanel ==
    /\ launchPending > 0
    /\ launchPending' = launchPending - 1
    /\ alert' = LaunchResult
    /\ installing' = FALSE
    /\ UNCHANGED <<systemInfo, loading, isWebEnvironment, installProgress, error, installConfig,
                   envVars, instVars, openPending, lastExit>>
    /\ lastReply' = [lastReply EXCEPT !["launch"] = "ok"]

\* launch_indextts answered: the result is shown.
LaunchOk ==
    /\ launchPending > 0
    /\ launchPending' = launchPending - 1
    /\ alert' = LaunchResult
    /\ UNCHANGED <<uiVars, envVars, instVars, openPending, lastExit>>
    /\ lastReply' = [lastReply EXCEPT !["launch"] = "ok"]

\* launch_indextts rejected.
LaunchFail ==
    /\ launchPending > 0
    /\ launchPending' = launchPending - 1
    /\ \E e \in HostErrors : alert' = LaunchError(e)
    /\ UNCHANGED <<uiVars, envVars, instVars, openPending, lastExit>>
    /\ lastReply' = [lastReply EXCEPT !["launch"] = "failed"]

\* The open-directory button: openInstallDirectory up to its await.
OpenInstallDirectory ==
    /\ LaunchClickable
    /\ openPending < MaxPending
    /\ openPending' = openPending + 1
    /\ UNCHANGED <<uiVars, envVars, instVars, launchPending, alert, lastExit>>
    /\ UNCHANGED lastReply

\* open_install_directory answered.
OpenOk ==
    /\ openPending > 0
    /\ openPending' = openPending - 1
    /\ UNCHANGED <<uiVars, envVars, instVars, launchPending, alert, lastExit>>
    /\ lastReply' = [lastReply EXCEPT !["open"] = "ok"]

\* A variant of the rejected open_install_directory that shows nothing.
OpenFailSilent ==
    /\ openPending > 0
    /\ openPending' = openPending - 1
    /\ UNCHANGED <<uiVars, envVars, instVars, launchPending, alert, lastExit>>
    /\ lastReply' = [lastReply EXCEPT !["open"] = "failed"]

\* open_install_directory rejected.
OpenFail ==
    /\ openPending > 0
    /\ openPending' = openPending - 1
    /\ \E e \in HostErrors : alert' = OpenError(e)
    /\ UNCHANGED <<uiVars, envVars, instVars, launchPending, lastExit>>
    /\ lastReply' = [lastReply EXCEPT !["open"] = "failed"]

Next ==
    \/ ProbeOk
    \/ ProbeFail
    \/ DefaultPathOk
    \/ DefaultPathFail
    \/ CheckSystemInfo
    \/ SystemInfoOk
    \/ SystemInfoFail
    \/ StartInstallation
    \/ \E i \in Installs : StartAccepted(i)
    \/ \E i \in Installs : StartRejected(i)
    \/ \E i \in Installs : Tick(i)
    \/ \E i \in Installs : PollOk(i)
    \/ \E i \in Installs : PollFail(i)
    \/ Reset

Spec == Init /\ [][Next]_vars

\* The installation steps of the sessions that use the completion panel.
InstallPost ==
    \/ (nInst < MaxPostInstalls /\ StartInstallation)
    \/ \E i \in Installs : StartAccepted(i)
    \/ \E i \in Installs : StartRejected(i)
    \/ \E i \in Installs : (TotalIssued < MaxPostPolls /\ Tick(i))
    \/ \E i \in Installs : PollOk(i)
    \/ \E i \in Installs : PollFail(i)
    \/ Reset

\* The buttons of the completion panel and the answers to their calls.
PanelPost ==
    \/ LaunchIndexTTS
    \/ LaunchOk
    \/ LaunchFail
    \/ OpenInstallDirectory
    \/ OpenOk
    \/ OpenFail

\* The component with the buttons of the completion panel.
NextPost ==
    \/ ProbeOk
    \/ ProbeFail
    \/ DefaultPathOk
    \/ DefaultPathFail
    \/ CheckSystemInfo
    \/ SystemInfoOk
    \/ SystemInfoFail
    \/ InstallPost
    \/ PanelPost

SpecPost == Init /\ [][NextPost]_vars

\* The same sessions, the host answering a repeated get_system_info with a
\* profile other than the one held: an answer that leaves systemInfo as it
\* was is then a rejected call.
SystemInfoFresh == SystemInfoAnswer({p \in HostProfiles : systemInfo # <<p>>})

NextCalls ==
    \/ ProbeOk
    \/ ProbeFail
    \/ DefaultPathOk
    \/ DefaultPathFail
    \/ CheckSystemInfo
    \/ SystemInfoFresh
    \/ SystemInfoFail
    \/ InstallPost
    \/ PanelPost

SpecCalls == Init /\ [][NextCalls]_vars

\* The inputs of the configuration card, rendered in the !installing branch.
SetInstallPath(p) ==
    /\ ~installing
    /\ installConfig' = [installConfig EXCEPT !.install_path = p]
    /\ UNCHANGED <<systemInfo, loading, installing, isWebEnvironment, installProgress, error,
                   envVars, instVars, postVars, lastReply, lastExit>>

SetModelType(m) ==
    /\ ~installing
    /\ installConfig' = [installConfig EXCEPT !.model_type = m]
    /\ UNCHANGED <<systemInfo, loading, installing, isWebEnvironment, installProgress, error,
                   envVars, instVars, postVars, lastReply, lastExit>>

SetUseGpu(b) ==
    /\ ~installing
    /\ installConfig' = [installConfig EXCEPT !.use_gpu = b]
    /\ UNCHANGED <<systemInfo, loading, installing, isWebEnvironment, installProgress, error,
                   envVars, instVars, postVars, lastReply, lastExit>>

\* Sessions that edit the configuration and start, on a machine that passes
\* every check.
SystemInfoGood == SystemInfoAnswer({GoodProfile})
StartConfig == nInst < MaxConfigInstalls /\ StartInstallation

NextConfig ==
    \/ ProbeOk
    \/ DefaultPathOk
    \/ DefaultPathFail
    \/ SystemInfoGood
    \/ \E p \in TypedPaths : SetInstallPath(p)
    \/ \E m \in ModelOptions : SetModelType(m)
    \/ \E b \in BOOLEAN : SetUseGpu(b)
    \/ StartConfig
    \/ \E i \in Installs : StartAccepted(i)
    \/ \E i \in Installs : StartRejected(i)

SpecConfig == Init /\ [][NextConfig]_vars

\* Sessions examined for termination: the desktop host reports a machine that
\* passes every check, its default-path answer is still to come and the
\* re-detect button is left alone; each installation polls up to MaxFairPolls
\* times, and the host, which may answer "still running" while another poll
\* is to come, answers the last polls with a finished report, a failed report
\* or an error.
FairInstalls == 1..MaxFairInstalls
StartFair == nInst < MaxFairInstalls /\ StartInstallation
TickFair(i) == issued[i] < MaxFairPolls /\ IntervalFires(i)
PollOkFair(i) == PollOk(i) /\ (issued[i] < MaxFairPolls \/ lastPoll' # "running")
AnswerFair(i) == PollOkFair(i) \/ PollFail(i)

NextFair ==
    \/ ProbeOk
    \/ SystemInfoGood
    \/ StartFair
    \/ \E i \in Installs : StartAccepted(i)
    \/ \E i \in Installs : StartRejected(i)
    \/ \E i \in Installs : TickFair(i)
    \/ \E i \in Installs : PollOkFair(i)
    \/ \E i \in Installs : PollFail(i)
    \/ Reset

\* The interval timer fires as long as it is armed, and the host answers
\* every poll.
SpecFair ==
    /\ Init
    /\ [][NextFair]_vars
    /\ \A i \in FairInstalls : WF_vars(TickFair(i))
    /\ \A i \in FairInstalls : WF_vars(AnswerFair(i))

\* Sessions in which the phase list is examined: an installation on a machine
\* that passes every check, the host answering its polls with any of
\* EvalReports.
PollPhase(i) == PollAnswer(i, EvalReports)

NextPhase ==
    \/ ProbeOk
    \/ SystemInfoGood
    \/ StartConfig
    \/ \E i \in Installs : StartAccepted(i)
    \/ \E i \in Installs : TickFair(i)
    \/ \E i \in Installs : PollPhase(i)

SpecPhase == Init /\ [][NextPhase]_vars

\* Environment detection alone, the host answering with any of the profiles
\* the evaluator is examined on.
SystemInfoEval == SystemInfoAnswer(EvalProfiles)

NextEval ==
    \/ ProbeOk
    \/ ProbeFail
    \/ DefaultPathOk
    \/ DefaultPathFail
    \/ CheckSystemInfo
    \/ SystemInfoEval
    \/ SystemInfoFail

SpecEval == Init /\ [][NextEval]_vars

\* The state of the installation controller, read off the component's state.
ControllerState ==
    IF installing
    THEN (IF \E i \in Installs : timer[i] THEN "running" ELSE "starting")
    ELSE CASE lastExit = "completed" -> "completed"
           [] lastExit = "failed" -> "failed"
           [] OTHER -> "idle"

TypeOK ==
    /\ loading \in BOOLEAN /\ installing \in BOOLEAN /\ isWebEnvironment \in BOOLEAN
    /\ nInst \in 0..MaxInstalls
    /\ TotalIssued \in 0..MaxPolls
    /\ \A i \in Installs : outstanding[i] \in 0..MaxPolls /\ runs[i] \in 0..MaxPolls

\* ================================================================== claims
\* A step in which a get_installation_progress call of timer i is answered.
ReplyStep(i) == outstanding'[i] < outstanding[i]

\* A step in which a start_installation call is issued.
StartStep == nInst' # nInst

\* Calls are issued by armed timers only, and a timer is armed only by the
\* acceptance of its own start call: a cleared timer issues no call again.
ClearedTimersStaySilent(i) ==
    /\ issued'[i] > issued[i] => timer[i]
    /\ (timer'[i] /\ ~timer[i]) => startCall[i] = "pending"

\* C1: a start attempt in any controller state other than idle issues no
\* start_installation call; after a failure a new start needs a reset first.
C1_StartOnlyFromIdle ==
    [][StartStep => ControllerState = "idle"]_vars

\* C2: a start_installation call is never issued while an earlier start call
\* is unanswered or while a timer armed by an earlier start is still armed.
C2_OneInstallationInFlight ==
    [][StartStep => \A i \in Installs : startCall[i] # "pending" /\ ~timer[i]]_vars

\* C3: a get_installation_progress call is never issued while an earlier one
\* is unanswered.
C3_NoOverlappingPoll ==
    [][TotalIssued' > TotalIssued => TotalOutstanding = 0]_vars

\* C4: once the controller is completed or failed, a poll answer that arrives
\* changes neither the progress report, nor the error message, nor the
\* controller state.
C4_NoLateAnswerApplied ==
    [][(ControllerState \in {"completed", "failed"} /\ \E i \in Installs : ReplyStep(i))
         => /\ installProgress' = installProgress
            /\ error' = error
            /\ ControllerState' = ControllerState]_vars

\* C5: when a poll answer with the failed flag is handled, the timer of that
\* installation is cleared and issues no call again, the controller is failed
\* and the error message carries the report's message.
C5_FailedReportHaltsPolling ==
    [][\A i \in Installs :
         /\ (ReplyStep(i) /\ lastPoll' = "failed")
              => /\ installProgress'.has_error
                 /\ ~timer'[i]
                 /\ ControllerState' = "failed"
                 /\ error' = "installation failed: " \o installProgress'.message
         /\ ClearedTimersStaySilent(i)]_vars

C5_Witness ==
    /\ lastPoll = "failed"
    /\ ControllerState = "failed"
    /\ error = "installation failed: M"
    /\ \E i \in Installs : issued[i] > 0 /\ ~timer[i] /\ startCall[i] = "accepted"

\* C6: when every call of an installation was answered before its timer fired
\* again, k still-running reports followed by a finished report make k+1 calls
\* in all, the controller is completed, and the timer issues no call again.
C6_SequentialRunCompletes ==
    [][\A i \in Installs :
         /\ (ReplyStep(i) /\ lastPoll' = "finished" /\ ~overlap[i])
              => /\ issued[i] = runs[i] + 1
                 /\ issued'[i] = issued[i] /\ runs'[i] = runs[i]
                 /\ outstanding'[i] = 0
                 /\ ~timer'[i]
                 /\ ControllerState' = "completed"
         /\ ClearedTimersStaySilent(i)]_vars

C6_Witness ==
    /\ lastPoll = "finished"
    /\ ControllerState = "completed"
    /\ \E i \in Installs :
         /\ ~overlap[i] /\ runs[i] = 1 /\ issued[i] = 2
         /\ outstanding[i] = 0 /\ ~timer[i]

\* C7 as stated: a rejected poll call, while the controller is running, stops
\* the polling, moves the controller to failed, and the error message equals
\* the transport error text.
C7_TransportErrorVerbatim ==
    [][\A i \in Installs :
         (ControllerState = "running" /\ ReplyStep(i) /\ lastPoll' = "error")
           => /\ ~timer'[i]
              /\ ControllerState' = "failed"
              /\ error' \in HostErrors]_vars

\* C7 as amended: ... and the error message is the fixed label followed by
\* the transport error text.
C7_TransportErrorLabelled ==
    [][\A i \in Installs :
         /\ (ControllerState = "running" /\ ReplyStep(i) /\ lastPoll' = "error")
              => /\ ~timer'[i]
                 /\ ControllerState' = "failed"
                 /\ error' \in {"failed to get installation progress: " \o e : e \in HostErrors}
         /\ ClearedTimersStaySilent(i)]_vars

C7_Witness ==
    /\ lastPoll = "error"
    /\ ControllerState = "failed"
    /\ error = "failed to get installation progress: E"
    /\ \E i \in Installs : issued[i] > 0 /\ ~timer[i] /\ startCall[i] = "accepted"

\* A step in which the start_installation call i is rejected.
RejectStep(i) == startCall[i] = "pending" /\ startCall'[i] = "rejected"

\* What gates the start button besides the controller itself.
EnvironmentAllowsStart ==
    systemInfo # <<>> /\ systemStatus # "error" /\ ~isWebEnvironment

\* C8 as stated: a rejected start returns the controller to idle, surfaces the
\* failure message verbatim, arms no timer and issues no poll call for that
\* attempt, and leaves a new start possible.
C8_StartRejectionVerbatim ==
    [][\A i \in Installs :
         /\ RejectStep(i)
              => /\ ControllerState' = "idle"
                 /\ error' \in HostErrors
                 /\ (EnvironmentAllowsStart => StartClickable')
         /\ startCall'[i] = "rejected" => ~timer'[i] /\ issued'[i] = 0]_vars

\* C8 as amended: ... surfaces the fixed label followed by the failure
\* message ...
C8_StartRejectionLabelled ==
    [][\A i \in Installs :
         /\ RejectStep(i)
              => /\ ControllerState' = "idle"
                 /\ error' \in {"failed to start installation: " \o e : e \in HostErrors}
                 /\ (EnvironmentAllowsStart => StartClickable')
         /\ startCall'[i] = "rejected" => ~timer'[i] /\ issued'[i] = 0]_vars

C8_Witness ==
    /\ startCall[1] = "rejected"
    /\ startCall[2] = "pending"
    /\ issued[1] = 0 /\ ~timer[1]

\* C9: once the capability probe has failed, the environment flag stays set,
\* the start button stays disabled, no installation panel is rendered and no
\* start_installation call is ever issued, whatever is re-detected.
C9_RestrictedNeverInstalls ==
    probe = "failed"
      => /\ isWebEnvironment
         /\ StartDisabled
         /\ ~installing
         /\ nInst = 0

C9_Witness ==
    /\ probe = "failed"
    /\ ~loading
    /\ systemStatus = "good"
    /\ error = Null

\* C10: while the verdict is error no start_installation call is issued, and
\* no start call changes state.
C10_ErrorVerdictBlocksStart ==
    [][systemStatus = "error"
         => /\ ~StartStep
            /\ \A i \in Installs : startCall[i] = "unused" => startCall'[i] = "unused"
            /\ ~(installing' /\ ~installing)]_vars

C10_Witness ==
    /\ systemStatus = "error"
    /\ probe = "ok"
    /\ ~installing
    /\ ~loading
    /\ nInst \in 1..(MaxInstalls - 1)

\* A step in which the reset button's handler runs: installing is set to
\* false by neither a start rejection nor a poll answer.
ResetStep ==
    installing /\ ~installing' /\ startCall' = startCall /\ outstanding' = outstanding

\* C11: in failed the reset is available and leads to idle with the initial
\* progress report, so that the controller is never idle with an earlier
\* report still held.
C11_ResetFromFailedDiscardsReport ==
    [][/\ ControllerState = "failed" => ResetClickable
       /\ (ResetStep /\ ControllerState = "failed")
            => (ControllerState' = "idle" /\ installProgress' = InitialProgress)
       /\ ControllerState' = "idle" => installProgress' = InitialProgress]_vars

\* C12: the reset handler runs in no state other than failed.
C12_ResetOnlyFromFailed ==
    [][ResetStep => ControllerState = "failed"]_vars

\* A step in which a launch_indextts or an open_install_directory call is issued.
PostCallStep == launchPending' > launchPending \/ openPending' > openPending

\* C13: a launch or open-directory call is issued only while the controller
\* is completed.
C13_PostActionsOnlyWhenCompleted ==
    [][PostCallStep => ControllerState = "completed"]_vars

\* C14: whenever the controller is completed, the launch and open-directory
\* buttons are there to click.
C14_PostActionsAvailableWhenCompleted ==
    ControllerState = "completed" => LaunchClickable

\* ------------------------------------------------ the evaluator (SpecEval)
\* The four checks, in the order they are listed, and whether a profile
\* fails one: a version fails when it is absent or, by CheckFailsWhenFalsy,
\* when it is the empty string too.
CheckNames == <<"memory", "disk", "python", "git">>

Missing(v, emptyCounts) == v = Absent \/ (emptyCounts /\ v = Empty)

CheckFails(check, info, emptyCounts) ==
    CASE check = "memory" -> ~(info.total_memory >= MinMemoryGiB * KiBPerGiB)
      [] check = "disk"   -> ~(info.available_disk_space >= MinDiskGiB * KiBPerGiB)
      [] check = "python" -> Missing(info.python_version, emptyCounts)
      [] check = "git"    -> Missing(info.git_version, emptyCounts)

FailedChecks(info) == {k \in 1..4 : CheckFails(CheckNames[k], info, TRUE)}

\* C15: the verdict follows the number of failing checks: good and no
\* diagnostics for none, warning and as many diagnostics for one or two,
\* error for three or four; unknown and no diagnostics without a profile.
C15_VerdictByFailCount ==
    IF systemInfo = <<>>
    THEN systemStatus = "unknown" /\ Diagnostics(systemInfo) = <<>>
    ELSE LET k == Cardinality(FailedChecks(systemInfo[1]))
         IN /\ k = 0 => (systemStatus = "good" /\ Diagnostics(systemInfo) = <<>>)
            /\ k \in {1, 2} => (systemStatus = "warning" /\ Len(Diagnostics(systemInfo)) = k)
            /\ k \in {3, 4} => systemStatus = "error"

C15_Witness ==
    /\ systemInfo # <<>>
    /\ Cardinality(FailedChecks(systemInfo[1])) = 3
    /\ systemInfo[1].total_memory = MinMemoryGiB * KiBPerGiB
    /\ systemStatus = "error"

\* The diagnostics expected of a profile: one per failing check, in the order
\* of CheckNames.
RECURSIVE ExpectedFrom(_, _, _)
ExpectedFrom(k, info, emptyCounts) ==
    IF k > Len(CheckNames) THEN <<>>
    ELSE (IF CheckFails(CheckNames[k], info, emptyCounts) THEN <<CheckNames[k]>> ELSE <<>>)
         \o ExpectedFrom(k + 1, info, emptyCounts)

\* The fields of a profile that no check names do not change the diagnostics.
OtherFieldsIgnored(info) ==
    \A a \in {0, MinMemoryGiB * KiBPerGiB}, c \in BOOLEAN :
        Issues([info EXCEPT !.available_memory = a, !.cuda_available = c]) = Issues(info)

\* C16: one diagnostic per failing check, in the order memory, disk, python,
\* git; a quantity fails below its cutoff and passes at it; a tool fails iff
\* its version is absent; the other fields do not matter.
C16_DiagnosticsPerFailingCheck ==
    systemInfo # <<>> =>
        /\ Diagnostics(systemInfo) = ExpectedFrom(1, systemInfo[1], FALSE)
        /\ OtherFieldsIgnored(systemInfo[1])

\* C16 as amended: ... a tool fails iff its version is absent or the empty
\* string ...
C16_DiagnosticsPerFailingCheckOrEmpty ==
    systemInfo # <<>> =>
        /\ Diagnostics(systemInfo) = ExpectedFrom(1, systemInfo[1], TRUE)
        /\ OtherFieldsIgnored(systemInfo[1])

C16_Witness ==
    /\ systemInfo # <<>>
    /\ systemInfo[1].total_memory = MinMemoryGiB * KiBPerGiB
    /\ systemInfo[1].available_disk_space = MinDiskGiB * KiBPerGiB - 1
    /\ systemInfo[1].python_version = Empty
    /\ systemInfo[1].git_version = Absent
    /\ systemInfo[1].cuda_available
    /\ Diagnostics(systemInfo) = <<"disk", "python", "git">>

\* ------------------------------------------------------ the probe (C17)
\* No host call other than the probe has been issued.
NoOtherCallIssued ==
    /\ ~sysCall
    /\ ~pathCall
    /\ nInst = 0
    /\ TotalIssued = 0
    /\ launchPending = 0
    /\ openPending = 0

\* C17: the probe is pending when the session starts and is never issued
\* again; while it is pending no other host call has been issued.
C17_ProbeOnceBeforeAnyCall ==
    /\ probe = "pending"
    /\ [][/\ probe = "pending" => NoOtherCallIssued
          /\ probe' = "pending" => (probe = "pending" /\ NoOtherCallIssued')]_vars

C17_Witness ==
    /\ probe = "ok"
    /\ sysCall
    /\ pathCall
    /\ nInst = 0

\* ------------------------------------------- failures of host calls (C18)
\* The steps in which the rejection of a host call is handled.
ProbeFailed == probe = "pending" /\ probe' = "failed"
PathFailed == pathCall /\ ~pathCall' /\ lastReply'["path"] = "failed"
InfoFailed == sysCall /\ ~sysCall' /\ systemInfo' = systemInfo
PollFailed(i) == ReplyStep(i) /\ lastPoll' = "error"
LaunchFailed == launchPending' < launchPending /\ lastReply'["launch"] = "failed"
OpenFailed == openPending' < openPending /\ lastReply'["open"] = "failed"

\* Each rejection but that of the default-path fetch puts its own message on
\* the screen: the error banner's text, or an alert.
OtherFailuresSurfaced ==
    /\ ProbeFailed => error' = "this installer supports the desktop application only"
    /\ InfoFailed => error' \in {"system check failed: " \o e : e \in HostErrors}
    /\ \A i \in Installs :
         /\ RejectStep(i) => error' \in {"failed to start installation: " \o e : e \in HostErrors}
         /\ PollFailed(i) => error' \in {"failed to get installation progress: " \o e : e \in HostErrors}
    /\ LaunchFailed => alert' \in {"launch failed: " \o e : e \in HostErrors}
    /\ OpenFailed => alert' \in {"failed to open the directory: " \o e : e \in HostErrors}

\* C18: the rejection of any host call, that of the default-path fetch
\* included, puts a message on the screen.
C18_EveryFailureSurfaced ==
    [][/\ OtherFailuresSurfaced
       /\ PathFailed => (error' # error \/ alert' # alert)]_vars

\* C18 as amended: ... of any host call but the default-path fetch, whose
\* rejection changes nothing on the screen and leaves the install path.
C18_FailuresSurfacedButDefaultPath ==
    [][/\ OtherFailuresSurfaced
       /\ PathFailed => UNCHANGED <<uiVars, alert>>]_vars

C18_Witness ==
    /\ lastReply["open"] = "failed"
    /\ lastReply["path"] = "failed"
    /\ alert = "failed to open the directory: E"
    /\ installConfig.install_path = FallbackPath

\* C19: while an installation is in flight (the controller is starting or
\* running) no step changes the install configuration, whichever answer of
\* the host arrives.
C19_RequestFrozenInFlight ==
    [][(ControllerState = "starting" \/ ControllerState = "running")
         => installConfig' = installConfig]_vars

\* ---------------------------------------------------- termination (C20)
\* The answer to a poll of installation i is a finished report, a failed
\* report or an error.
TerminalAnswer(i) == ReplyStep(i) /\ lastPoll' \in {"finished", "failed", "error"}

\* C20: with the timer firing and the host answering, and the host answering
\* some poll of each started installation with a finished report, a failed
\* report or an error, every armed timer is eventually cleared; the answer
\* that clears it leaves the controller completed or failed, and a cleared
\* timer issues no poll call again.
C20_PollingTerminates ==
    /\ \A i \in FairInstalls : timer[i] ~> ~timer[i]
    /\ [][\A i \in Installs :
            /\ TerminalAnswer(i)
                 => (~timer'[i] /\ ControllerState' \in {"completed", "failed"})
            /\ ClearedTimersStaySilent(i)]_vars

C20_Witness ==
    /\ startCall[1] = "accepted"
    /\ issued[1] = MaxFairPolls
    /\ runs[1] > 0
    /\ ~timer[1]
    /\ outstanding[1] = 0
    /\ ControllerState = "completed"

\* C21: a poll timer is armed exactly when the controller is running, and no
\* poll is issued or answered in any other controller state.
C21_TimerArmedIffRunning ==
    [][/\ (\E i \in Installs : timer[i]) <=> ControllerState = "running"
       /\ \A i \in Installs :
            (issued'[i] > issued[i] \/ ReplyStep(i)) => ControllerState = "running"]_vars

\* C22: the configuration sent with a start_installation call has a model
\* type among the options of the select and a path that is not empty.
C22_RequestConforms ==
    [][StartStep => (/\ installConfig.model_type \in ModelOptions
                     /\ installConfig.install_path # Empty)]_vars

\* ------------------------------------------- detection errors (C23, C24)
\* The step in which the rejection of get_system_info is handled, told by the
\* message it leaves.
InfoRejected ==
    sysCall /\ ~sysCall' /\ error' \in {"system check failed: " \o e : e \in HostErrors}

\* A step in which a get_system_info call is issued, and one in which the
\* get_default_install_path call of setDefaultPath is.
InfoIssued == sysCall' /\ ~sysCall
PathIssued == pathCall' /\ ~pathCall

\* C23: a rejected profile fetch or default-path fetch leaves the profile
\* held, the verdict and the install path as they were and issues no call;
\* a profile fetch is issued by the answered probe or by a click on the
\* enabled re-detect button only, the default-path fetch by the answered
\* probe only; a rejected profile fetch leaves its message.
C23_DetectionFailureKeepsData ==
    [][/\ (InfoRejected \/ PathFailed)
            => /\ systemInfo' = systemInfo
               /\ systemStatus' = systemStatus
               /\ installConfig' = installConfig
               /\ ~InfoIssued
               /\ ~PathIssued
       /\ InfoIssued => (probe = "pending" \/ RedetectClickable)
       /\ PathIssued => probe = "pending"
       /\ InfoFailed => InfoRejected]_vars

C23_Witness ==
    /\ systemInfo # <<>>
    /\ systemStatus = "warning"
    /\ error = "system check failed: E"
    /\ ~sysCall
    /\ lastReply["path"] = "failed"
    /\ installConfig.install_path = FallbackPath

\* C24: the failed probe issues no call, and once it has failed no call is
\* issued but the profile fetch of a click on the enabled re-detect button.
C24_NoDetectionAfterFailedProbe ==
    [][/\ ProbeFailed => (~sysCall' /\ ~pathCall')
       /\ probe = "failed"
            => /\ ~PathIssued
               /\ InfoIssued => RedetectClickable
               /\ ~StartStep
               /\ ~PostCallStep
               /\ \A i \in Installs : issued'[i] = issued[i]]_vars

C24_Witness ==
    /\ probe = "failed"
    /\ isWebEnvironment
    /\ sysCall
    /\ loading

\* ---------------------------------------------------- phase list (C25)
\* The percentage above which the entry at each index counts as complete.
Fifths == <<0, 20, 40, 60, 80>>

\* C25: for the report held, the entry at index i is complete exactly above
\* i x 20 percent, whatever the step's name, and active exactly when its key
\* is the report's step; a report that is neither finished nor failed changes
\* neither the installing flag, nor the timers, nor the error; a step name
\* that is no key makes no entry active.
C25_PhaseMapping ==
    [][/\ \A index \in 0..4 :
            /\ isCompleted(installProgress, index) <=> installProgress.progress > Fifths[index + 1]
            /\ isActive(installProgress, index)
                 <=> installProgress.step = <<"preparing", "downloading", "models",
                                              "dependencies", "configuring">>[index + 1]
       /\ installProgress.step \in {"idle", "completed", "verifying"}
            => \A index \in 0..4 : ~isActive(installProgress, index)
       /\ \A i \in Installs :
            (ReplyStep(i) /\ lastPoll' = "running")
                => UNCHANGED <<installing, timer, error, lastExit>>]_vars

\* The first step is shown active, and complete with all the others.
C25_Witness ==
    /\ installing
    /\ installProgress.step = "preparing"
    /\ installProgress.progress = 81
    /\ isActive(installProgress, 0)
    /\ \A index \in 0..4 : isCompleted(installProgress, index)

\* ------------------------------------------------- frame effects (C26, C27)
\* A step of a re-detection: its get_system_info call is issued or answered.
RedetectStep == sysCall' # sysCall

\* C26: while the controller is running, a step of a re-detection, whatever
\* its answer and the verdict that follows, changes neither the installing
\* flag, nor the timers and their calls, nor the progress report.
C26_RedetectLeavesPolling ==
    [][(RedetectStep /\ ControllerState = "running")
          => /\ UNCHANGED <<installing, installProgress, instVars, lastExit>>
             /\ ControllerState' = "running"]_vars

C26_Witness ==
    /\ ControllerState = "running"
    /\ systemStatus = "error"
    /\ ~sysCall
    /\ timer[1]
    /\ outstanding[1] > 0

\* A step in which a launch_indextts or open_install_directory call is
\* answered.
PostAnswerStep == launchPending' < launchPending \/ openPending' < openPending

\* C27: issuing and answering a launch or open-directory call changes
\* neither the controller state, nor the progress report, nor the install
\* configuration, nor the profile; a rejected call leaves its alert.
C27_PostCallsLeaveController ==
    [][/\ (PostCallStep \/ PostAnswerStep)
            => /\ UNCHANGED <<installing, installProgress, installConfig, systemInfo,
                             instVars, lastExit>>
               /\ ControllerState' = ControllerState
       /\ LaunchFailed => alert' \in {"launch failed: " \o e : e \in HostErrors}
       /\ OpenFailed => alert' \in {"failed to open the directory: " \o e : e \in HostErrors}]_vars

C27_Witness ==
    /\ lastReply["launch"] = "failed"
    /\ lastReply["open"] = "ok"
    /\ alert = "launch failed: E"
    /\ launchPending = 0
    /\ installing
    /\ installProgress = FinishedReport

====
